---- MODULE Spec2Model ----
(***************************************************************************)
(* Model of the two scaffolder actions of azure-devops-actions-org.ts:     *)
(*   createAzureRepo            (id azure:devops:create-repo)              *)
(*   createAndRegisterArgoApp   (id argocd:create-and-register-app)        *)
(* Each invocation of a handler is a run; a run advances one await at a    *)
(* time.  The source-control host, the CI system, the delivery controller, *)
(* git and the filesystem are the environment: every call to them either   *)
(* succeeds or fails, chosen nondeterministically.                         *)
(***************************************************************************)
EXTENDS Integers, Sequences, FiniteSets, TLC

VARIABLES
    pc,        \* pc[r]: position of run r inside its handler
    input,     \* input[r]: ctx.input, the action and process.env.AZURE_DEVOPS_TOKEN
    resp,      \* resp[r]: response of the create-repository fetch
    data,      \* data[r]: response.json() of the create-repository call
    work,      \* work[r]: tempDir and the working tree git operates on
    ops,       \* ops[r]: external operations issued by run r, in order
    log,       \* log[r]: entries written to ctx.logger
    err,       \* err[r]: the error raised to the caller, or NoErr
    regReq,    \* regReq[r]: body of the registration request sent, or NoReq
    dirs,      \* directories existing under os.tmpdir()
    repo,      \* repo[r]: the remote repository the run's create call names
    registered \* registered[r]: the CI system / controller accepted the registration

vars == <<pc, input, resp, data, work, ops, log, err, regReq, dirs, repo, registered>>

(* ---------------------------- bounds ------------------------------------ *)

\* number of directory names mkdtempSync can draw its random suffix from
NumTmpNames == 2

(* ---------------------------- domains ----------------------------------- *)

Runs == {"r1", "r2"}
MainRun == "r1"

TmpNames == 1..NumTmpNames

NoToken == ""
Tokens == {"tA", "tB"}

NoErr == "none"
NoReq == [kind |-> "none"]
NoResp == [kind |-> "none"]
NoData == [id |-> "unset", project |-> "unset"]
NoSecret == ""
NoDir == 0

Pipeline == "createAzureRepo"
GitOps == "createAndRegisterArgoApp"

\* ctx.input of createAzureRepo together with the environment's token
PipelineInputs ==
    [action : {Pipeline},
     token : {NoToken} \cup Tokens,
     projectName : {"", "Team-A"},
     repoName : {"", "svc-orders"},
     repoType : {"", "application", "infrastructure"},
     argocdUrl : {""},
     argocdToken : {""}]

\* ctx.input of createAndRegisterArgoApp together with the environment's token
GitOpsInputs ==
    [action : {GitOps},
     token : {NoToken} \cup Tokens,
     projectName : {"", "Team-A"},
     repoName : {"", "svc-orders"},
     repoType : {""},
     argocdUrl : {"", "https://argocd"},
     argocdToken : {"", "argo-token"}]

Inputs == PipelineInputs \cup GitOpsInputs

NoInput ==
    [action |-> "none", token |-> NoToken, projectName |-> "", repoName |-> "",
     repoType |-> "", argocdUrl |-> "", argocdToken |-> ""]

\* what the source-control host can answer to POST .../_apis/git/repositories
Responses ==
    [kind : {"http"}, ok : BOOLEAN, html : BOOLEAN, json : BOOLEAN]

\* the JSON body of a successful create: data.id and data.project (.id)
DataValues ==
    [id : {"undefined", "repo-id"}, project : {"undefined", "no-id", "project-id"}]

NoWork ==
    [tempDir |-> NoDir, cloned |-> NoReq, gitMeta |-> "none", readme |-> "none",
     origin |-> NoReq, staged |-> FALSE, commits |-> 0]

NoRepo ==
    [exists |-> FALSE, commits |-> 0, inherited |-> FALSE, readme |-> "none",
     branch |-> "none"]

(* ---------------------------- pure helpers ------------------------------ *)

\* `https://${token}@dev.azure.com/TILabs00/${projectName}/_git/${repoName}`
newRepoUrl(in) ==
    [kind |-> "url", token |-> in.token, project |-> in.projectName,
     name |-> in.repoName]

\* variant of templateRepoUrl: the two templates of createAzureRepo are swapped
templateRepoUrl_Swapped(in) ==
    [kind |-> "url", token |-> in.token, project |-> "ArgoCD",
     name |-> IF in.action = Pipeline
              THEN (IF in.repoType = "application"
                    THEN "template-repo-infra"
                    ELSE "template-repo-application")
              ELSE "temperature-converter-yaml"]

\* the template cloned: chosen by repoType in the pipeline action, fixed in the other
templateRepoUrl(in) ==
    [kind |-> "url", token |-> in.token, project |-> "ArgoCD",
     name |-> IF in.action = Pipeline
              THEN (IF in.repoType = "application"
                    THEN "template-repo-application"
                    ELSE "template-repo-infra")
              ELSE "temperature-converter-yaml"]

\* readmeContent of createAzureRepo
readmeContent(in) ==
    IF in.repoType = "application" THEN "Aplicação" ELSE "Infraestrutura"

\* one ctx.logger call: its level, its fixed text, the error it interpolates
\* (NoErr when none) and the token when the text embeds it (NoSecret otherwise)
Entry(level, msg, cause, secret) ==
    [level |-> level, msg |-> msg, cause |-> cause, secret |-> secret]

Op(name, ok) == [op |-> name, ok |-> ok]

\* the message logged by the catch block of each action
CatchMsg(in) ==
    IF in.action = Pipeline
    THEN "Error creating repository and pipeline"
    ELSE "Error creating repository and registering application"

\* the thrown Error's message interpolates the upstream response body
\* (`...: ${statusText}, ${errorText}`)
CarriesBody(e) ==
    e \in {"Failed to create repository", "Failed to create pipeline",
           "Failed to register application"}

\* the external operations of the materialization step, in the order of the code
MaterializeOps ==
    {"mkdtemp", "clone", "rmGit", "init", "writeReadme", "addRemote", "add",
     "commit", "push"}

\* every external operation a handler can issue
AllOps == {"createRepo", "register"} \cup MaterializeOps

\* positions of operation name in the trace t
Positions(t, name) == {i \in DOMAIN t : t[i].op = name}

Issued(t, name) == Positions(t, name) # {}

Succeeded(t, name) == \E i \in Positions(t, name) : t[i].ok

Attempts(t, name) == Cardinality(Positions(t, name))

Set(f, r, x) == [f EXCEPT ![r] = x]

(* ---------------------------- initial state ----------------------------- *)

Init ==
    /\ pc = [r \in Runs |-> "idle"]
    /\ input = [r \in Runs |-> NoInput]
    /\ resp = [r \in Runs |-> NoResp]
    /\ data = [r \in Runs |-> NoData]
    /\ work = [r \in Runs |-> NoWork]
    /\ ops = [r \in Runs |-> << >>]
    /\ log = [r \in Runs |-> << >>]
    /\ err = [r \in Runs |-> NoErr]
    /\ regReq = [r \in Runs |-> NoReq]
    /\ dirs = {}
    /\ repo = [r \in Runs |-> NoRepo]
    /\ registered = [r \in Runs |-> FALSE]

(* ---------------------------- error paths ------------------------------- *)

\* catch (error) { ctx.logger.error(`...: ${error.message}`); throw error; }
\* pre are the entries the failing statement logged itself before throwing
CatchBlock(r, e, pre, secret) ==
    /\ log' = Set(log, r, log[r] \o pre
                    \o << Entry("error", CatchMsg(input[r]), e, secret) >>)
    /\ err' = Set(err, r, e)
    /\ pc' = Set(pc, r, "threw")

\* variant of StepFails: the catch block deletes the repository it created
StepFails_RollsBack(r, name, e, secret) ==
    /\ ops' = Set(ops, r, ops[r] \o << Op(name, FALSE), Op("deleteRepo", TRUE) >>)
    /\ CatchBlock(r, e, << >>, secret)
    /\ repo' = Set(repo, r, NoRepo)
    /\ UNCHANGED <<input, resp, data, work, regReq, dirs, registered>>

\* an awaited call inside the try block rejects: control passes to the catch
StepFails(r, name, e, secret) ==
    /\ ops' = Set(ops, r, Append(ops[r], Op(name, FALSE)))
    /\ CatchBlock(r, e, << >>, secret)
    /\ UNCHANGED <<input, resp, data, work, regReq, dirs, repo, registered>>

\* an awaited local call resolves: the working tree changes, control moves on
StepSucceeds(r, name, next, w) ==
    /\ ops' = Set(ops, r, Append(ops[r], Op(name, TRUE)))
    /\ work' = Set(work, r, w)
    /\ pc' = Set(pc, r, next)
    /\ UNCHANGED <<input, resp, data, log, err, regReq, dirs, repo, registered>>

\* what a failing git command that was given an authenticated URL may print
UrlSecrets(r) == {NoSecret, input[r].token}

(* ---------------------------- handler entry ----------------------------- *)

\* the host framework calls handler(ctx)
Invoke(r, in) ==
    /\ pc[r] = "idle"
    /\ input' = Set(input, r, in)
    /\ pc' = Set(pc, r, "checkToken")
    /\ UNCHANGED <<resp, data, work, ops, log, err, regReq, dirs, repo, registered>>

\* variant of CheckToken: the missing token is logged but not thrown
CheckToken_NoThrow(r) ==
    /\ pc[r] = "checkToken"
    /\ log' = Set(log, r, Append(log[r],
                 IF input[r].token = NoToken
                 THEN Entry("error", "AZURE_DEVOPS_TOKEN is not set", NoErr, NoSecret)
                 ELSE Entry("info", "Creating repository", NoErr, NoSecret)))
    /\ pc' = Set(pc, r, "createRepo")
    /\ UNCHANGED <<input, resp, data, work, ops, err, regReq, dirs, repo, registered>>

\* if (!token) { ctx.logger.error(...); throw ... }   (outside the try block)
\* createAndRegisterArgoApp goes on to its ctx.logger.info and the try block
CheckToken(r) ==
    /\ pc[r] = "checkToken"
    /\ IF input[r].token = NoToken
       THEN /\ log' = Set(log, r, Append(log[r],
                        Entry("error", "AZURE_DEVOPS_TOKEN is not set", NoErr, NoSecret)))
            /\ err' = Set(err, r, "AZURE_DEVOPS_TOKEN is not set")
            /\ pc' = Set(pc, r, "threw")
       ELSE IF input[r].action = Pipeline
            THEN /\ pc' = Set(pc, r, "checkInput")
                 /\ UNCHANGED <<log, err>>
            ELSE /\ log' = Set(log, r, Append(log[r],
                             Entry("info", "Creating repository", NoErr, NoSecret)))
                 /\ pc' = Set(pc, r, "createRepo")
                 /\ UNCHANGED err
    /\ UNCHANGED <<input, resp, data, work, ops, regReq, dirs, repo, registered>>

\* createAzureRepo only: if (!projectName || !repoName || !repoType) throw ...
\* (outside the try block, nothing logged), else ctx.logger.info
CheckInput(r) ==
    /\ pc[r] = "checkInput"
    /\ IF input[r].projectName = "" \/ input[r].repoName = "" \/ input[r].repoType = ""
       THEN /\ err' = Set(err, r, "projectName, repoName, and repoType are required")
            /\ pc' = Set(pc, r, "threw")
            /\ UNCHANGED log
       ELSE /\ log' = Set(log, r, Append(log[r],
                        Entry("info", "Creating repository", NoErr, NoSecret)))
            /\ pc' = Set(pc, r, "createRepo")
            /\ UNCHANGED err
    /\ UNCHANGED <<input, resp, data, work, ops, regReq, dirs, repo, registered>>

(* ---------------------------- step 1: create the repository ------------- *)

\* if (contentType && contentType.includes('text/html')): the test exists in
\* createAzureRepo only
RejectsHtml(in, rs) == in.action = Pipeline /\ rs.html

\* await fetch(POST .../_apis/git/repositories), the checks of the response and
\* response.json().  The host creates the repository exactly when it answers
\* with a success status and an API (non-HTML) payload.
CreateRepository(r) ==
    /\ pc[r] = "createRepo"
    /\ \/ \* fetch rejects (network failure): no response
          StepFails(r, "createRepo", "FetchError", NoSecret)
       \/ \E rs \in Responses :
            /\ resp' = Set(resp, r, rs)
            /\ repo' = Set(repo, r, [repo[r] EXCEPT !.exists = rs.ok /\ ~rs.html])
            /\ IF RejectsHtml(input[r], rs)
               THEN /\ CatchBlock(r, "Authentication failed",
                          << Entry("error", "Received HTML response", NoErr, NoSecret),
                             Entry("error", "Failed with HTML response", "body", NoSecret) >>,
                          NoSecret)
                    /\ ops' = Set(ops, r, Append(ops[r], Op("createRepo", FALSE)))
                    /\ UNCHANGED data
               ELSE IF ~rs.ok
               THEN /\ CatchBlock(r, "Failed to create repository",
                          << Entry("error", "Failed to create repository", "body", NoSecret) >>,
                          NoSecret)
                    /\ ops' = Set(ops, r, Append(ops[r], Op("createRepo", FALSE)))
                    /\ UNCHANGED data
               ELSE IF ~rs.json
               THEN /\ CatchBlock(r, "invalid json response body", << >>, NoSecret)
                    /\ ops' = Set(ops, r, Append(ops[r], Op("createRepo", FALSE)))
                    /\ UNCHANGED data
               ELSE /\ \E d \in DataValues : data' = Set(data, r, d)
                    /\ ops' = Set(ops, r, Append(ops[r], Op("createRepo", TRUE)))
                    /\ pc' = Set(pc, r, "mkdtemp")
                    /\ UNCHANGED <<log, err>>
            /\ UNCHANGED <<input, work, regReq, dirs, registered>>

(* ---------------------------- step 2: materialize the template ---------- *)

\* variant of MakeTempDir: the directory name is not checked against existing ones
MakeTempDir_ReusesName(r) ==
    /\ pc[r] = "mkdtemp"
    /\ \/ StepFails(r, "mkdtemp", "FsError", NoSecret)
       \/ \E n \in TmpNames :
            /\ dirs' = dirs \cup {n}
            /\ work' = Set(work, r, [work[r] EXCEPT !.tempDir = n])
            /\ ops' = Set(ops, r, Append(ops[r], Op("mkdtemp", TRUE)))
            /\ log' = Set(log, r, Append(log[r],
                         Entry("info", "Cloning template repository", NoErr, NoSecret)))
            /\ pc' = Set(pc, r, "clone")
            /\ UNCHANGED <<input, resp, data, err, regReq, repo, registered>>

\* const tempDir = fs.mkdtempSync(path.join(os.tmpdir(), 'repo-')); logger.info;
\* simpleGit(tempDir).  mkdtempSync creates a directory that did not exist.
MakeTempDir(r) ==
    /\ pc[r] = "mkdtemp"
    /\ \/ StepFails(r, "mkdtemp", "FsError", NoSecret)
       \/ \E n \in TmpNames \ dirs :
            /\ dirs' = dirs \cup {n}
            /\ work' = Set(work, r, [work[r] EXCEPT !.tempDir = n])
            /\ ops' = Set(ops, r, Append(ops[r], Op("mkdtemp", TRUE)))
            /\ log' = Set(log, r, Append(log[r],
                         Entry("info", "Cloning template repository", NoErr, NoSecret)))
            /\ pc' = Set(pc, r, "clone")
            /\ UNCHANGED <<input, resp, data, err, regReq, repo, registered>>

\* await git.clone(templateRepoUrl, tempDir)
GitClone(r) ==
    /\ pc[r] = "clone"
    /\ \/ \E s \in UrlSecrets(r) : StepFails(r, "clone", "GitError", s)
       \/ StepSucceeds(r, "clone", "rmGit",
                       [work[r] EXCEPT !.gitMeta = "template",
                                       !.cloned = templateRepoUrl(input[r])])

\* variant of RemoveGitDir: the call succeeds without deleting .git
RemoveGitDir_KeepsHistory(r) ==
    /\ pc[r] = "rmGit"
    /\ \/ StepFails(r, "rmGit", "FsError", NoSecret)
       \/ StepSucceeds(r, "rmGit", "init", work[r])

\* variant of RemoveGitDir: a failure to delete .git is ignored
RemoveGitDir_IgnoresFailure(r) ==
    /\ pc[r] = "rmGit"
    /\ \/ /\ ops' = Set(ops, r, Append(ops[r], Op("rmGit", FALSE)))
          /\ pc' = Set(pc, r, "init")
          /\ UNCHANGED <<input, resp, data, work, log, err, regReq, dirs, repo, registered>>
       \/ StepSucceeds(r, "rmGit", "init", [work[r] EXCEPT !.gitMeta = "none"])

\* fs.rmSync(path.join(tempDir, '.git'), { recursive: true, force: true })
RemoveGitDir(r) ==
    /\ pc[r] = "rmGit"
    /\ \/ StepFails(r, "rmGit", "FsError", NoSecret)
       \/ StepSucceeds(r, "rmGit", "init", [work[r] EXCEPT !.gitMeta = "none"])

\* await git.init(); createAzureRepo writes the README next, the other action
\* goes straight to addRemote.  git init creates an empty history where there
\* is no .git and leaves an existing one as it is.
GitInit(r) ==
    /\ pc[r] = "init"
    /\ \/ StepFails(r, "init", "GitError", NoSecret)
       \/ StepSucceeds(r, "init",
                       IF input[r].action = Pipeline THEN "writeReadme" ELSE "addRemote",
                       [work[r] EXCEPT !.gitMeta = IF @ = "none" THEN "fresh" ELSE @])

\* createAzureRepo only: fs.writeFileSync(path.join(tempDir, 'README.md'), readmeContent)
WriteReadme(r) ==
    /\ pc[r] = "writeReadme"
    /\ \/ StepFails(r, "writeReadme", "FsError", NoSecret)
       \/ StepSucceeds(r, "writeReadme", "addRemote",
                       [work[r] EXCEPT !.readme = readmeContent(input[r])])

\* await git.addRemote('origin', newRepoUrl)
GitAddRemote(r) ==
    /\ pc[r] = "addRemote"
    /\ \/ \E s \in UrlSecrets(r) : StepFails(r, "addRemote", "GitError", s)
       \/ StepSucceeds(r, "addRemote", "add",
                       [work[r] EXCEPT !.origin = newRepoUrl(input[r])])

\* await git.add('./*')
GitAdd(r) ==
    /\ pc[r] = "add"
    /\ \/ StepFails(r, "add", "GitError", NoSecret)
       \/ StepSucceeds(r, "add", "commit", [work[r] EXCEPT !.staged = TRUE])

\* await git.commit('Initial commit ...')
GitCommit(r) ==
    /\ pc[r] = "commit"
    /\ \/ StepFails(r, "commit", "GitError", NoSecret)
       \/ StepSucceeds(r, "commit", "push",
                       [work[r] EXCEPT !.commits = @ + 1, !.staged = FALSE])

\* the accepted push: the host stores the working tree's history on master
PushAccepted(r) ==
    /\ repo[r].exists
    /\ repo' = Set(repo, r,
           [exists |-> TRUE,
            commits |-> work[r].commits,
            inherited |-> work[r].gitMeta = "template",
            readme |-> work[r].readme,
            branch |-> "master"])
    /\ ops' = Set(ops, r, Append(ops[r], Op("push", TRUE)))
    /\ log' = Set(log, r, Append(log[r],
                 Entry("info", "Repository created successfully", NoErr, NoSecret)))
    /\ pc' = Set(pc, r, "register")
    /\ UNCHANGED <<input, resp, data, work, err, regReq, dirs, registered>>

\* variant of GitPush: the push is repeated until the host accepts it
GitPush_RetriesUntilAccepted(r) ==
    /\ pc[r] = "push"
    /\ PushAccepted(r)

\* variant of GitPush: a rejected push is swallowed and the handler goes on
GitPush_SwallowsFailure(r) ==
    /\ pc[r] = "push"
    /\ \/ /\ ops' = Set(ops, r, Append(ops[r], Op("push", FALSE)))
          /\ pc' = Set(pc, r, "register")
          /\ UNCHANGED <<input, resp, data, work, log, err, regReq, dirs, repo,
                         registered>>
       \/ PushAccepted(r)

\* variant of GitPush: a rejected push is tried once more
GitPush_Retries(r) ==
    /\ pc[r] = "push"
    /\ \/ IF Issued(ops[r], "push")
          THEN \E s \in UrlSecrets(r) : StepFails(r, "push", "GitError", s)
          ELSE /\ ops' = Set(ops, r, Append(ops[r], Op("push", FALSE)))
               /\ UNCHANGED <<pc, input, resp, data, work, log, err, regReq, dirs,
                              repo, registered>>
       \/ PushAccepted(r)

\* await git.push('origin', 'master'); ctx.logger.info(`Repository ... created`)
\* a push can only be accepted by a repository that exists on the host
GitPush(r) ==
    /\ pc[r] = "push"
    /\ \/ \E s \in UrlSecrets(r) : StepFails(r, "push", "GitError", s)
       \/ PushAccepted(r)

(* ---------------------------- step 3: register -------------------------- *)

\* body of POST .../_apis/pipelines
pipelineBody(in, d) ==
    [kind |-> "pipeline",
     name |-> <<in.repoName, "-pipeline">>,
     path |-> "azure-pipelines.yaml",
     repoId |-> d.id,
     repoName |-> in.repoName,
     projectId |-> IF d.project = "project-id" THEN "project-id" ELSE "undefined",
     projectName |-> in.projectName,
     refName |-> <<"refs/heads/", "master">>]

\* variant of applicationManifest: repoURL is the URL without the token
applicationManifest_PlainUrl(in) ==
    [kind |-> "application",
     name |-> "my-application",
     repoURL |-> [newRepoUrl(in) EXCEPT !.token = NoToken],
     path |-> "argo-app",
     targetRevision |-> "HEAD",
     prune |-> TRUE,
     selfHeal |-> TRUE]

\* applicationManifest
applicationManifest(in) ==
    [kind |-> "application",
     name |-> "my-application",
     repoURL |-> newRepoUrl(in),
     path |-> "argo-app",
     targetRevision |-> "HEAD",
     prune |-> TRUE,
     selfHeal |-> TRUE]

\* variant of RegistrationSettles: the response status is not tested
RegistrationSettles_IgnoresStatus(r, body, failText) ==
    /\ regReq' = Set(regReq, r, body)
    /\ \/ \* fetch rejects (network failure)
          /\ ops' = Set(ops, r, Append(ops[r], Op("register", FALSE)))
          /\ CatchBlock(r, "FetchError", << >>, NoSecret)
          /\ UNCHANGED registered
       \/ \* any response, accepted by the service or not
          \E accepted \in BOOLEAN :
             /\ ops' = Set(ops, r, Append(ops[r], Op("register", accepted)))
             /\ registered' = Set(registered, r, accepted)
             /\ log' = Set(log, r, Append(log[r],
                          Entry("info", "registered successfully", NoErr, NoSecret)))
             /\ pc' = Set(pc, r, "returned")
             /\ UNCHANGED err
    /\ UNCHANGED <<input, resp, data, work, dirs, repo>>

\* the registration request went out and the awaited fetch settled
RegistrationSettles(r, body, failText) ==
    /\ regReq' = Set(regReq, r, body)
    /\ \/ \* fetch rejects (network failure)
          /\ ops' = Set(ops, r, Append(ops[r], Op("register", FALSE)))
          /\ CatchBlock(r, "FetchError", << >>, NoSecret)
          /\ UNCHANGED registered
       \/ \* !response.ok
          /\ ops' = Set(ops, r, Append(ops[r], Op("register", FALSE)))
          /\ CatchBlock(r, failText,
                        << Entry("error", failText, "body", NoSecret) >>, NoSecret)
          /\ UNCHANGED registered
       \/ \* response.ok
          /\ ops' = Set(ops, r, Append(ops[r], Op("register", TRUE)))
          /\ registered' = Set(registered, r, TRUE)
          /\ log' = Set(log, r, Append(log[r],
                       Entry("info", "registered successfully", NoErr, NoSecret)))
          /\ pc' = Set(pc, r, "returned")
          /\ UNCHANGED err
    /\ UNCHANGED <<input, resp, data, work, dirs, repo>>

\* variant of CreatePipeline: a rejected pipeline request starts the workflow again
CreatePipeline_StartsOver(r) ==
    /\ pc[r] = "register"
    /\ input[r].action = Pipeline
    /\ IF data[r].project = "undefined"
       THEN /\ CatchBlock(r, "TypeError", << >>, NoSecret)
            /\ UNCHANGED <<input, resp, data, work, ops, regReq, dirs, repo, registered>>
       ELSE \/ RegistrationSettles(r, pipelineBody(input[r], data[r]),
                                   "Failed to create pipeline")
            \/ /\ ~Issued(ops[r], "register")
               /\ ops' = Set(ops, r, Append(ops[r], Op("register", FALSE)))
               /\ regReq' = Set(regReq, r, pipelineBody(input[r], data[r]))
               /\ pc' = Set(pc, r, "createRepo")
               /\ UNCHANGED <<input, resp, data, work, log, err, dirs, repo,
                              registered>>

\* createAzureRepo: build the pipeline definition (data.project.id throws a
\* TypeError when data.project is undefined), await fetch(POST .../_apis/pipelines)
CreatePipeline(r) ==
    /\ pc[r] = "register"
    /\ input[r].action = Pipeline
    /\ IF data[r].project = "undefined"
       THEN /\ CatchBlock(r, "TypeError", << >>, NoSecret)
            /\ UNCHANGED <<input, resp, data, work, ops, regReq, dirs, repo, registered>>
       ELSE RegistrationSettles(r, pipelineBody(input[r], data[r]),
                                "Failed to create pipeline")

\* createAndRegisterArgoApp: build applicationManifest,
\* await fetch(`${argocdUrl}/api/v1/applications`); fetch rejects a URL that is
\* not absolute without sending anything
RegisterApplication(r) ==
    /\ pc[r] = "register"
    /\ input[r].action = GitOps
    /\ IF input[r].argocdUrl = ""
       THEN /\ CatchBlock(r, "FetchError", << >>, NoSecret)
            /\ UNCHANGED <<input, resp, data, work, ops, regReq, dirs, repo, registered>>
       ELSE RegistrationSettles(r, applicationManifest(input[r]),
                                "Failed to register application")

(* ---------------------------- specifications ---------------------------- *)

\* one step of the handler run r is executing
Handler(r) ==
    \/ CheckToken(r)
    \/ CheckInput(r)
    \/ CreateRepository(r)
    \/ MakeTempDir(r)
    \/ GitClone(r)
    \/ RemoveGitDir(r)
    \/ GitInit(r)
    \/ WriteReadme(r)
    \/ GitAddRemote(r)
    \/ GitAdd(r)
    \/ GitCommit(r)
    \/ GitPush(r)
    \/ CreatePipeline(r)
    \/ RegisterApplication(r)

\* a single invocation of either action, with any input and any environment
Next ==
    \/ \E in \in Inputs : Invoke(MainRun, in)
    \/ Handler(MainRun)

Spec == Init /\ [][Next]_vars

(* ---------------------------- workflow states --------------------------- *)

\* the state of the workflow of run r: which of the three steps are behind it
WfState(r) ==
    CASE pc[r] = "threw" -> "Failed"
      [] pc[r] = "returned" -> "Registered"
      [] pc[r] = "register" -> "ContentPushed"
      [] pc[r] \in {"mkdtemp", "clone", "rmGit", "init", "writeReadme", "addRemote",
                    "add", "commit", "push"} -> "RepoCreated"
      [] OTHER -> "Idle"

Done(r) == pc[r] \in {"returned", "threw"}

Invoked(r) == pc[r] # "idle"

\* a required field of ctx.input is empty
RequiredMissing(in) ==
    \/ in.projectName = ""
    \/ in.repoName = ""
    \/ in.action = Pipeline /\ in.repoType = ""
    \/ in.action = GitOps /\ (in.argocdUrl = "" \/ in.argocdToken = "")

(* ---------------------------- claims ------------------------------------ *)

\* C1: a registration request is issued only after, in the same run, the
\* create-repository call succeeded and then the push succeeded; whenever a
\* registration request was sent or was accepted, the remote repository exists
\* and holds pushed content.
C1_RegistrationAfterPush ==
    \A r \in Runs :
        /\ \A k \in Positions(ops[r], "register") :
              \E i \in Positions(ops[r], "createRepo") :
              \E j \in Positions(ops[r], "push") :
                 i < j /\ j < k /\ ops[r][i].ok /\ ops[r][j].ok
        /\ (regReq[r] # NoReq \/ registered[r]) =>
              /\ Succeeded(ops[r], "createRepo")
              /\ Succeeded(ops[r], "push")
              /\ repo[r].exists
              /\ repo[r].commits > 0

C1_Witness ==
    \E r \in Runs : registered[r] /\ Succeeded(ops[r], "register") /\ repo[r].commits > 0

\* C2 (as claimed): when the handler has returned or raised, the temporary
\* directory it created no longer exists.
C2_TempDirRemoved ==
    \A r \in Runs :
        Done(r) /\ work[r].tempDir # NoDir => work[r].tempDir \notin dirs

\* C3: with the access token absent the handler raises and issues no network,
\* filesystem or git operation.
C3_NoTokenNoSideEffect ==
    \A r \in Runs :
        Invoked(r) /\ input[r].token = NoToken =>
           /\ ops[r] = << >>
           /\ regReq[r] = NoReq
           /\ work[r] = NoWork
           /\ ~repo[r].exists
           /\ pc[r] \in {"checkToken", "threw"}
           /\ (pc[r] = "threw" => err[r] # NoErr)

C3_Witness ==
    \E r \in Runs :
        pc[r] = "threw" /\ input[r].token = NoToken /\ input[r].action = GitOps

\* C4 (as claimed): in both actions, when a required input field is empty the
\* handler raises before the create-repository request or any other external
\* operation is issued.
C4_InputValidatedFirst ==
    \A r \in Runs :
        Invoked(r) /\ RequiredMissing(input[r]) =>
           /\ ops[r] = << >>
           /\ (Done(r) => pc[r] = "threw")

\* C5 (as claimed): in both actions, a create-repository response with a
\* non-success status or an HTML content type makes the run fail before any
\* temp directory, clone, push or registration.
C5_RejectedResponseStops ==
    \A r \in Runs :
        resp[r] # NoResp /\ (~resp[r].ok \/ resp[r].html) =>
           /\ pc[r] = "threw"
           /\ \A i \in DOMAIN ops[r] : ops[r][i].op = "createRepo"
           /\ work[r] = NoWork
           /\ regReq[r] = NoReq

\* C6: a failed materialization operation is the last operation of the run:
\* the error is raised to the caller, and no registration request is sent.
C6_MaterializeFailureAborts ==
    \A r \in Runs :
        \A k \in DOMAIN ops[r] :
            ops[r][k].op \in MaterializeOps /\ ~ops[r][k].ok =>
               /\ k = Len(ops[r])
               /\ pc[r] = "threw"
               /\ err[r] # NoErr
               /\ regReq[r] = NoReq
               /\ ~registered[r]
               /\ ~Issued(ops[r], "register")

C6_Witness ==
    \E r \in Runs :
        /\ Succeeded(ops[r], "createRepo")
        /\ Issued(ops[r], "push")
        /\ ~Succeeded(ops[r], "push")
        /\ pc[r] = "threw"

\* C7: in one run each external operation is attempted at most once.
C7_NoRetry ==
    \A r \in Runs : \A name \in AllOps : Attempts(ops[r], name) <= 1

C7_Witness ==
    \E r \in Runs :
        /\ Attempts(ops[r], "push") = 1
        /\ ~Succeeded(ops[r], "push")
        /\ Done(r)

\* C8: the workflow state only moves along Idle -> RepoCreated ->
\* ContentPushed -> Registered, or from one of the first three to Failed;
\* Registered and Failed are never left.
WfTransitions ==
    { <<"Idle", "RepoCreated">>, <<"RepoCreated", "ContentPushed">>,
      <<"ContentPushed", "Registered">>,
      <<"Idle", "Failed">>, <<"RepoCreated", "Failed">>, <<"ContentPushed", "Failed">> }

C8_LinearWorkflow ==
    [][ \A r \in Runs :
           \/ WfState(r)' = WfState(r)
           \/ <<WfState(r), WfState(r)'>> \in WfTransitions ]_vars

C8_Witness ==
    \E r \in Runs :
        /\ WfState(r) = "Failed"
        /\ Succeeded(ops[r], "push")
        /\ input[r].action = Pipeline

\* C9: the step that fails a run after the repository was created leaves the
\* remote repository, its pushed content and any registration as they were,
\* and issues no operation beyond the three steps' own.
C9_NoCompensation ==
    [][ \A r \in Runs :
           /\ (repo[r].exists /\ pc[r] # "threw" /\ pc'[r] = "threw") =>
                 /\ repo'[r] = repo[r]
                 /\ registered'[r] = registered[r]
           /\ \A i \in DOMAIN ops'[r] : ops'[r][i].op \in AllOps ]_vars

C9_Witness ==
    \E r \in Runs :
        pc[r] = "threw" /\ repo[r].exists /\ repo[r].commits > 0 /\ ~registered[r]

\* C10 (as claimed): every failing run wrote at least one error-level log
\* entry before the error reached the caller, and a run that returned normally
\* had no failed step.
C10_ErrorsLoggedAndRaised ==
    \A r \in Runs :
        /\ pc[r] = "threw" =>
              /\ err[r] # NoErr
              /\ \E i \in DOMAIN log[r] : log[r][i].level = "error"
        /\ pc[r] = "returned" =>
              /\ err[r] = NoErr
              /\ \A i \in DOMAIN ops[r] : ops[r][i].ok

(* ---------------------------- further specifications -------------------- *)

\* inputs of the concurrent invocations: the token is set, every required
\* field is filled in
ConcInputs ==
    {in \in Inputs :
        /\ in.token = "tA"
        /\ ~RequiredMissing(in)
        /\ in.repoType \in {"", "application"}}

\* two invocations running concurrently, interleaved at their awaits
NextConc ==
    \E r \in Runs :
        \/ \E in \in ConcInputs : Invoke(r, in)
        \/ Handler(r)

SpecConc == Init /\ [][NextConc]_vars

\* a single invocation in which every awaited call eventually settles
SpecLive == Init /\ [][Next]_vars /\ WF_vars(Handler(MainRun))

(* ---------------------------- claims, continued ------------------------- *)

\* the last external operation of run r, or a placeholder when there is none
LastOp(r) == IF ops[r] = << >> THEN Op("none", TRUE) ELSE ops[r][Len(ops[r])]

\* run r stopped on a response the handler rejected: the create response for
\* its non-success status or its HTML content type, the registration response
\* for its non-success status
RejectedUpstream(r) ==
    /\ pc[r] = "threw"
    /\ ~LastOp(r).ok
    /\ \/ /\ LastOp(r).op = "createRepo"
          /\ resp[r] # NoResp
          /\ (~resp[r].ok \/ RejectsHtml(input[r], resp[r]))
       \/ /\ LastOp(r).op = "register"
          /\ err[r] # "FetchError"

\* C11 (as claimed): when a run fails on a rejected upstream response, the
\* error raised to the caller carries that response's body.
C11_ErrorCarriesBody ==
    \A r \in Runs : RejectedUpstream(r) => CarriesBody(err[r])

\* C12 (as claimed): in createAzureRepo, the repository id and project id in
\* the pipeline request are the ones the successful create call of the same
\* run returned, and neither is empty.
C12_IdentityPassedOn ==
    \A r \in Runs :
        regReq[r].kind = "pipeline" =>
           /\ Succeeded(ops[r], "createRepo")
           /\ regReq[r].repoId = data[r].id
           /\ regReq[r].repoId # "undefined"
           /\ data[r].project = "project-id"
           /\ regReq[r].projectId = "project-id"

\* op a succeeded before op b was issued, in the trace t
Before(t, a, b) ==
    \A j \in Positions(t, b) : \E i \in Positions(t, a) : i < j /\ t[i].ok

\* C13: once the push succeeded the new repository holds exactly one commit
\* and nothing of the template's history; .git was deleted and a fresh history
\* initialised before origin was added, and one commit was created before the
\* single push.
C13_SingleFreshCommit ==
    \A r \in Runs :
        /\ Before(ops[r], "clone", "rmGit")
        /\ Before(ops[r], "rmGit", "init")
        /\ Before(ops[r], "init", "addRemote")
        /\ Before(ops[r], "addRemote", "commit")
        /\ Before(ops[r], "commit", "push")
        /\ Issued(ops[r], "addRemote") => work[r].gitMeta = "fresh"
        /\ Succeeded(ops[r], "push") =>
              /\ repo[r].commits = 1
              /\ ~repo[r].inherited
              /\ Attempts(ops[r], "commit") = 1
              /\ Attempts(ops[r], "push") = 1

C13_Witness ==
    \E r \in Runs : Succeeded(ops[r], "push") /\ repo[r].commits = 1

\* C14 (as claimed): a run that reaches the commit has written a README before
\* staging: 'Aplicação' or 'Infraestrutura' by repoType in createAzureRepo, a
\* fixed default text in createAndRegisterArgoApp.
C14_ReadmeWritten ==
    \A r \in Runs :
        Issued(ops[r], "commit") =>
           /\ Before(ops[r], "writeReadme", "add")
           /\ work[r].readme # "none"
           /\ input[r].action = Pipeline =>
                 work[r].readme = (IF input[r].repoType = "application"
                                   THEN "Aplicação" ELSE "Infraestrutura")

\* C15: the application manifest sent by createAndRegisterArgoApp names as
\* spec.source.repoURL the authenticated URL that was added as origin and
\* pushed to in the same run, with prune and selfHeal both true.
C15_ManifestMatchesPush ==
    \A r \in Runs :
        regReq[r].kind = "application" =>
           /\ regReq[r].repoURL = work[r].origin
           /\ regReq[r].repoURL.token = input[r].token
           /\ Succeeded(ops[r], "push")
           /\ regReq[r].prune
           /\ regReq[r].selfHeal

C15_Witness ==
    \E r \in Runs :
        regReq[r].kind = "application" /\ Succeeded(ops[r], "register")

\* everything run q owns
RunState(q) ==
    <<pc[q], input[q], resp[q], data[q], work[q], ops[q], log[q], err[q],
      regReq[q], repo[q], registered[q]>>

\* C16: concurrent runs never hold the same temporary directory, a run keeps
\* the directory it created, and a step of one run (a failing one included)
\* changes nothing another run owns.
C16_RunsIsolated ==
    [][ \A r \in Runs : \A q \in Runs \ {r} :
           /\ work'[r].tempDir # NoDir =>
                 /\ work'[r].tempDir # work'[q].tempDir
                 /\ work'[r].tempDir \in dirs'
           /\ work[r].tempDir # NoDir => work'[r].tempDir = work[r].tempDir
           /\ pc'[r] # pc[r] => RunState(q)' = RunState(q) ]_vars

C16_Witness ==
    \E r \in Runs : \E q \in Runs \ {r} :
        /\ work[r].tempDir # NoDir
        /\ work[q].tempDir # NoDir
        /\ pc[r] = "threw"
        /\ pc[q] = "returned"

\* C17 (as claimed): no entry written to the logger contains the access token
\* or a URL embedding it.
C17_TokenNeverLogged ==
    \A r \in Runs : \A i \in DOMAIN log[r] : log[r][i].secret = NoSecret

\* the checks the handler makes before its try block
ChecksPassed(in) ==
    /\ in.token # NoToken
    /\ in.action = Pipeline =>
          in.projectName # "" /\ in.repoName # "" /\ in.repoType # ""

HasLogged(r, msg) == \E i \in DOMAIN log[r] : log[r][i].msg = msg

\* C18: a run returns normally exactly when its checks passed and the create
\* call, the push and the registration succeeded in this order; the success
\* entries are logged only after their operation succeeded, and a run with a
\* failed operation raises.
C18_ReturnsIffAllSucceeded ==
    \A r \in Runs :
        /\ pc[r] = "returned" <=>
              /\ ChecksPassed(input[r])
              /\ Succeeded(ops[r], "register")
              /\ Before(ops[r], "push", "register")
              /\ Before(ops[r], "createRepo", "push")
        /\ pc[r] = "returned" =>
              /\ err[r] = NoErr
              /\ registered[r]
              /\ \A i \in DOMAIN ops[r] : ops[r][i].ok
        /\ HasLogged(r, "Repository created successfully") => Succeeded(ops[r], "push")
        /\ HasLogged(r, "registered successfully") => Succeeded(ops[r], "register")
        /\ (\E i \in DOMAIN ops[r] : ~ops[r][i].ok) => pc[r] = "threw" /\ err[r] # NoErr

C18_Witness ==
    \E r \in Runs :
        /\ pc[r] = "returned"
        /\ input[r].action = GitOps
        /\ HasLogged(r, "registered successfully")

\* C19: when every awaited call eventually settles, an invoked run eventually
\* returns or raises.
C19_Terminates ==
    \A r \in Runs : Invoked(r) ~> Done(r)

C19_Witness ==
    \E r \in Runs : pc[r] = "threw" /\ LastOp(r).op = "clone" /\ ~LastOp(r).ok

\* C20: the pipeline request of createAzureRepo names the branch the run pushed
\* to and the repository it created, and the template cloned is
\* template-repo-application exactly when repoType is 'application', else
\* template-repo-infra.
C20_PipelineMatchesRepo ==
    \A r \in Runs :
        /\ regReq[r].kind = "pipeline" =>
              /\ regReq[r].refName = <<"refs/heads/", repo[r].branch>>
              /\ regReq[r].repoName = input[r].repoName
              /\ regReq[r].repoName = work[r].origin.name
              /\ regReq[r].projectName = work[r].origin.project
        /\ input[r].action = Pipeline /\ Succeeded(ops[r], "clone") =>
              /\ work[r].cloned.name \in {"template-repo-application", "template-repo-infra"}
              /\ work[r].cloned.name = "template-repo-application"
                    <=> input[r].repoType = "application"

C20_Witness ==
    \E r \in Runs :
        /\ regReq[r].kind = "pipeline"
        /\ input[r].repoType = "infrastructure"
        /\ work[r].cloned.name = "template-repo-infra"

====
